---- MODULE Spec2Model ----
(***************************************************************************)
(* A model of IDdataset.py: the Tagger (add_ids_to_json), the Batch Runner *)
(* (process_folder) and the Interactive Shell (main), over an explicit     *)
(* file system.                                                            *)
(*                                                                         *)
(* A file name is a sequence of character tokens ("a", ".", "json", ...),  *)
(* a path is a sequence of names below the root (which is also the working *)
(* directory), a file's text is a sequence of JSON tokens, and a JSON      *)
(* value is a record tagged by "kind".                                     *)
(***************************************************************************)
EXTENDS Integers, Sequences, FiniteSets, TLC

VARIABLES
    fs,           \* the file system: existing path -> node
    pc,           \* where the process is: a prompt of main, the loop of process_folder, ended
    mode_choice,  \* main: the mode token read at the current iteration
    folder,       \* process_folder: folder_path of the run in progress
    json_files,   \* process_folder: the name-filtered listing
    idx,          \* process_folder: position of the for loop in json_files
    invoked,      \* history: names the Tagger was invoked on in the current Batch Runner run
    results,      \* history: what each of those invocations printed, and the failure drawn for it
    printed,      \* history: notices process_folder printed in the current run
    rounds,       \* history: iterations of main's loop begun after the first
    last          \* history: the step just taken (its input, its Tagger call, fs before it)

vars == <<fs, pc, mode_choice, folder, json_files, idx, invoked, results, printed, rounds, last>>

----------------------------------------------------------------------------
(* Bounds of the model *)

\* longest array in a file handed directly to the Tagger
MaxLen == 2
\* most entries of the folder the shell works on
MaxEntries == 2
\* iterations of main's loop that may begin after the first
MaxRounds == 1

----------------------------------------------------------------------------
(* Sequences *)

Range(s) == {s[i] : i \in 1..Len(s)}

Prefix(s, k) == SubSeq(s, 1, k)

Suffix(s, k) == SubSeq(s, k, Len(s))

RECURSIVE Flatten(_)
Flatten(ss) == IF ss = <<>> THEN <<>> ELSE Head(ss) \o Flatten(Tail(ss))

\* all sequences over S of length at most n
SeqsUpTo(S, n) == UNION {[1..k -> S] : k \in 0..n}

\* all orderings of the finite set S
Orderings(S) == {s \in [1..Cardinality(S) -> S] : Range(s) = S}

----------------------------------------------------------------------------
(* JSON values and JSON text *)

\* a mapping keeps its keys in insertion order, as a Python dict does
Dict(items) == [kind |-> "dict", items |-> items]
Num(n) == [kind |-> "num", n |-> n]
\* a string; lone is TRUE when it holds a lone surrogate ("\ud800" in the input)
Str(lone) == [kind |-> "str", lone |-> lone]
List(items) == [kind |-> "list", items |-> items]

LBracket == [kind |-> "punct", ch |-> "["]
RBracket == [kind |-> "punct", ch |-> "]"]
Comma == [kind |-> "punct", ch |-> ","]
\* a byte sequence that is not UTF-8
BadByte == [kind |-> "punct", ch |-> "0xff"]
\* a word that is no JSON token
Garbage == [kind |-> "punct", ch |-> "not valid json"]

IsValueToken(t) == t.kind \in {"dict", "num", "str"}

\* an exception in flight, or none
NoExc == "none"

\* json.load(infile): the text is decoded as UTF-8, then parsed as one document.
\* Returns [exc, data].
JsonLoad(text) ==
    LET n == Len(text)
        elems == IF n >= 2 THEN SubSeq(text, 2, n - 1) ELSE <<>>
        wellFormedArray ==
            /\ n >= 2
            /\ text[1] = LBracket
            /\ text[n] = RBracket
            /\ \/ elems = <<>>
               \/ /\ Len(elems) % 2 = 1
                  /\ \A i \in 1..Len(elems) :
                        IF i % 2 = 1 THEN IsValueToken(elems[i]) ELSE elems[i] = Comma
    IN  IF BadByte \in Range(text)
            THEN [exc |-> "UnicodeDecodeError", data |-> Num(0)]
        ELSE IF n = 1 /\ IsValueToken(text[1])
            THEN [exc |-> NoExc, data |-> text[1]]
        ELSE IF wellFormedArray
            THEN [exc |-> NoExc,
                  data |-> List([i \in 1..((Len(elems) + 1) \div 2) |-> elems[2 * i - 1]])]
        ELSE [exc |-> "JSONDecodeError", data |-> Num(0)]

\* entry[key] = value on a dict: an existing key keeps its place, a new key goes last
SetItem(entry, key, value) ==
    IF \E i \in 1..Len(entry.items) : entry.items[i][1] = key
        THEN Dict([i \in 1..Len(entry.items) |->
                    IF entry.items[i][1] = key THEN <<key, value>> ELSE entry.items[i]])
        ELSE Dict(Append(entry.items, <<key, value>>))

AddIdsCountingDicts(data_list) ==
    [i \in 1..Len(data_list) |->
        IF data_list[i].kind = "dict"
            THEN SetItem(data_list[i], "id",
                         Cardinality({j \in 1..i : data_list[j].kind = "dict"}))
            ELSE data_list[i]]

\* lines 40-42, the enumerate loop; Python's index is i - 1, so the id
\* index + 1 is i
AddIds(data_list) ==
    [i \in 1..Len(data_list) |->
        IF data_list[i].kind = "dict"
            THEN SetItem(data_list[i], "id", (i - 1) + 1)
            ELSE data_list[i]]

\* json.dump(data_list, outfile, indent=2, ensure_ascii=False) writes the chunks
\* of the pure-Python encoder one by one: the pending "[" or "," goes out on its
\* own before a dict and together with a scalar.
DumpChunks(data_list) ==
    LET n == Len(data_list)
        sep(i) == IF i = 1 THEN LBracket ELSE Comma
        chunksOf(i) ==
            IF data_list[i].kind = "dict"
                THEN << <<sep(i)>>, <<data_list[i]>> >>
                ELSE << <<sep(i), data_list[i]>> >>
    IN  IF n = 0
            THEN << <<LBracket, RBracket>> >>
            ELSE Flatten([i \in 1..n |-> chunksOf(i)]) \o << <<RBracket>> >>

\* a chunk the UTF-8 text file cannot encode (ensure_ascii=False leaves a lone
\* surrogate as it is)
Unencodable(chunk) == \E i \in 1..Len(chunk) : chunk[i].kind = "str" /\ chunk[i].lone

----------------------------------------------------------------------------
(* Paths and the file system *)

DirNode == [type |-> "dir"]
FileNode(text) == [type |-> "file", text |-> text]

IsFile(f, p) == p \in DOMAIN f /\ f[p].type = "file"
IsDir(f, p) == p \in DOMAIN f /\ f[p].type = "dir"

\* f with path p holding node
Put(f, p, node) == [q \in DOMAIN f \cup {p} |-> IF q = p THEN node ELSE f[q]]

dirname(p) == IF p = <<>> THEN <<>> ELSE Prefix(p, Len(p) - 1)
basename(p) == IF p = <<>> THEN <<>> ELSE p[Len(p)]
join(dir, name) == Append(dir, name)

\* os.path.splitext on a file name: the extension starts at the last dot,
\* unless only dots come before it. Returns <<base, ext>>.
splitext(name) ==
    LET dots == {i \in 1..Len(name) : name[i] = "."}
        dotIndex == CHOOSE i \in dots : \A j \in dots : j <= i
    IN  IF dots # {} /\ \E j \in 1..(dotIndex - 1) : name[j] # "."
            THEN <<Prefix(name, dotIndex - 1), Suffix(name, dotIndex)>>
            ELSE <<name, <<>> >>

\* str.lower() on a name
LowerChar(c) ==
    CASE c = "JSON" -> "json"
      [] c = "A" -> "a"
      [] c = "F" -> "f"
      [] c = "D" -> "d"
      [] c = "E" -> "e"
      [] c = "X" -> "x"
      [] c = "Y" -> "y"
      [] OTHER -> c
Lower(s) == [i \in 1..Len(s) |-> LowerChar(s[i])]

\* s.lower().endswith('.json'); ".json" has no separator in it, so on a path it
\* is decided by the last name
EndsWithJson(name) ==
    LET l == Lower(name)
    IN  Len(l) >= 2 /\ l[Len(l) - 1] = "." /\ l[Len(l)] = "json"

OutputsName == <<"Outputs">>

OutputDir(input_filepath) == join(dirname(input_filepath), OutputsName)

OutputPathInPlace(input_filepath) == input_filepath

\* lines 17-26: D/name.ext -> D/Outputs/name-mod.ext
OutputPath(input_filepath) ==
    LET input_dir == dirname(input_filepath)
        filename == basename(input_filepath)
        base == splitext(filename)[1]
        ext == splitext(filename)[2]
        output_dir == join(input_dir, OutputsName)
        output_filename == base \o <<"-mod">> \o ext
    IN  join(output_dir, output_filename)

\* os.makedirs(d, exist_ok=True): every missing ancestor and d itself become
\* directories; a regular file in the way raises. Returns [exc, fs].
Makedirs(f, d) ==
    LET prefixes == {Prefix(d, k) : k \in 0..Len(d)}
    IN  IF IsFile(f, d)
            THEN [exc |-> "FileExistsError", fs |-> f]
        ELSE IF \E q \in prefixes : IsFile(f, q)
            THEN [exc |-> "NotADirectoryError", fs |-> f]
        ELSE [exc |-> NoExc,
              fs |-> [q \in DOMAIN f \cup prefixes |-> IF q \in DOMAIN f THEN f[q] ELSE DirNode]]

\* os.listdir(d): the names directly below d
Entries(f, d) == {basename(p) : p \in {q \in DOMAIN f : q # <<>> /\ dirname(q) = d}}

----------------------------------------------------------------------------
(* Failures of the environment, drawn by each step that does I/O *)

NoFault == [at |-> "none", k |-> 0]

\* the failures drawn for a Tagger call made through the shell
ShellFaults == {NoFault, [at |-> "open_in", k |-> 0], [at |-> "write", k |-> 1]}

\* at: the I/O call that fails (permission denied, disk full, ...); for "write",
\* k chunks reach the file before the failure
Faults ==
    {[at |-> a, k |-> 0] : a \in {"none", "makedirs", "open_in", "read", "open_out"}}
        \cup {[at |-> "write", k |-> k] : k \in 0..(2 * MaxLen)}

----------------------------------------------------------------------------
(* The Tagger *)

None == [none |-> TRUE, path |-> <<>>]
Some(p) == [none |-> FALSE, path |-> p]

\* lines 45-46: the output file is created or truncated by open(..., 'w'), then
\* the chunks are written until one fails; what was written stays. Returns
\* [exc, fs].
WriteOutput(f, output_filepath, data_list, fault) ==
    LET chunks == DumpChunks(data_list)
        bad == {i \in 1..Len(chunks) :
                    \/ Unencodable(chunks[i])
                    \/ fault.at = "write" /\ i = fault.k + 1}
        first == CHOOSE i \in bad : \A j \in bad : i <= j
    IN  IF fault.at = "open_out" THEN [exc |-> "PermissionError", fs |-> f]
        ELSE IF IsDir(f, output_filepath) THEN [exc |-> "IsADirectoryError", fs |-> f]
        ELSE IF bad # {}
            THEN [exc |-> IF Unencodable(chunks[first]) THEN "UnicodeEncodeError" ELSE "OSError",
                  fs |-> Put(f, output_filepath, FileNode(Flatten(Prefix(chunks, first - 1))))]
        ELSE [exc |-> NoExc, fs |-> Put(f, output_filepath, FileNode(Flatten(chunks)))]

\* lines 33-34: open(input_filepath, 'r') and json.load. Returns [exc, data].
ReadInput(f, input_filepath, fault) ==
    IF input_filepath \notin DOMAIN f THEN [exc |-> "FileNotFoundError", data |-> Num(0)]
    ELSE IF IsDir(f, input_filepath) THEN [exc |-> "IsADirectoryError", data |-> Num(0)]
    ELSE IF fault.at = "open_in" THEN [exc |-> "PermissionError", data |-> Num(0)]
    ELSE IF fault.at = "read" THEN [exc |-> "OSError", data |-> Num(0)]
    ELSE JsonLoad(f[input_filepath].text)

TryBodyOpenOutputFirst(f, input_filepath, fault) ==
    LET output_dir == OutputDir(input_filepath)
        output_filepath == OutputPath(input_filepath)
        made == IF fault.at = "makedirs"
                    THEN [exc |-> "PermissionError", fs |-> f]
                    ELSE Makedirs(f, output_dir)
        opened == IF IsDir(made.fs, output_filepath)
                      THEN made.fs
                      ELSE Put(made.fs, output_filepath, FileNode(<<>>))
        loaded == ReadInput(opened, input_filepath, fault)
        data == loaded.data
        wrote == WriteOutput(opened, output_filepath, AddIds(data.items), fault)
    IN  IF made.exc # NoExc
            THEN [exc |-> made.exc, fs |-> made.fs, ret |-> None, msg |-> ""]
        ELSE IF loaded.exc # NoExc
            THEN [exc |-> loaded.exc, fs |-> opened, ret |-> None, msg |-> ""]
        ELSE IF data.kind = "list"
            THEN IF wrote.exc # NoExc
                    THEN [exc |-> wrote.exc, fs |-> wrote.fs, ret |-> None, msg |-> ""]
                    ELSE [exc |-> NoExc, fs |-> wrote.fs,
                          ret |-> Some(output_filepath), msg |-> "success"]
        ELSE [exc |-> NoExc, fs |-> opened, ret |-> None, msg |-> "not_a_list"]

\* lines 28-53, the body of the try. Returns [exc, fs, ret, msg].
TryBody(f, input_filepath, fault) ==
    LET output_dir == OutputDir(input_filepath)
        output_filepath == OutputPath(input_filepath)
        made == IF fault.at = "makedirs"
                    THEN [exc |-> "PermissionError", fs |-> f]
                    ELSE Makedirs(f, output_dir)
        loaded == ReadInput(made.fs, input_filepath, fault)
        data == loaded.data
        wrote == WriteOutput(made.fs, output_filepath, AddIds(data.items), fault)
    IN  IF made.exc # NoExc
            THEN [exc |-> made.exc, fs |-> made.fs, ret |-> None, msg |-> ""]
        ELSE IF loaded.exc # NoExc
            THEN [exc |-> loaded.exc, fs |-> made.fs, ret |-> None, msg |-> ""]
        ELSE IF data.kind = "list"
            THEN IF wrote.exc # NoExc
                    THEN [exc |-> wrote.exc, fs |-> wrote.fs, ret |-> None, msg |-> ""]
                    ELSE [exc |-> NoExc, fs |-> wrote.fs,
                          ret |-> Some(output_filepath), msg |-> "success"]
        ELSE [exc |-> NoExc, fs |-> made.fs, ret |-> None, msg |-> "not_a_list"]

\* lines 55-63, the except clauses: the message printed for an exception, or
\* "" when no clause matches and the exception goes on to the caller
HandlersNoCatchAll(exc) ==
    CASE exc = "FileNotFoundError" -> "not_found"
      [] exc = "JSONDecodeError" -> "decode_error"
      [] OTHER -> ""

HandlersNotFoundForAnyOSError(exc) ==
    CASE exc \in {"FileNotFoundError", "IsADirectoryError", "NotADirectoryError",
                  "FileExistsError", "PermissionError", "OSError"} -> "not_found"
      [] exc = "JSONDecodeError" -> "decode_error"
      [] OTHER -> "unexpected"

Handlers(exc) ==
    CASE exc = "FileNotFoundError" -> "not_found"
      [] exc = "JSONDecodeError" -> "decode_error"
      [] OTHER -> "unexpected"

\* add_ids_to_json(input_filepath) on file system f.
\* Returns [fs, ret, msg, raised]: the file system it leaves, what it returns,
\* the message it prints, and the exception it lets through (NoExc if none).
add_ids_to_json(f, input_filepath, fault) ==
    LET body == TryBody(f, input_filepath, fault)
    IN  IF body.exc = NoExc
            THEN [fs |-> body.fs, ret |-> body.ret, msg |-> body.msg, raised |-> NoExc]
        ELSE IF Handlers(body.exc) # ""
            THEN [fs |-> body.fs, ret |-> None, msg |-> Handlers(body.exc), raised |-> NoExc]
        ELSE [fs |-> body.fs, ret |-> None, msg |-> "", raised |-> body.exc]

----------------------------------------------------------------------------
(* What the operator types *)

Whitespace == {" "}
Quotes == {"\"", "'"}

\* str.strip(chars)
Strip(s, chars) ==
    LET keep == {i \in 1..Len(s) : s[i] \notin chars}
        lo == CHOOSE i \in keep : \A j \in keep : i <= j
        hi == CHOOSE i \in keep : \A j \in keep : j <= i
    IN  IF keep = {} THEN <<>> ELSE SubSeq(s, lo, hi)

\* the typed text cut at its "/" separators
RECURSIVE SplitPath(_)
SplitPath(s) ==
    LET seps == {i \in 1..Len(s) : s[i] = "/"}
        i == CHOOSE k \in seps : \A j \in seps : k <= j
    IN  IF seps = {} THEN <<s>>
        ELSE <<Prefix(s, i - 1)>> \o SplitPath(Suffix(s, i + 1))

\* line 114, os.path.abspath(os.path.normpath(p)) with the root as working
\* directory: empty and "." components go (the inputs hold no "..")
NormalizedPath(user_input_path) ==
    SelectSeq(SplitPath(user_input_path), LAMBDA c : c # <<>> /\ c # <<".">>)

\* line 97: input(...).lower().strip()
ModeChoice(typed) == Strip(Lower(typed), Whitespace)

\* line 107: input(prompt).strip().strip('"\'')
UserInputPath(typed) == Strip(Strip(typed, Whitespace), Quotes)

ExitToken == <<"e", "x", "i", "t">>
FileToken == <<"f">>
DirToken == <<"d">>
YesToken == <<"y">>

ModeInputs == {<<"F">>, <<" ", "d", " ">>, <<"E", "x", "i", "t">>, <<"f", "d">>}

AnotherInputs == {<<" ", "Y">>, <<"y", "e", "s">>, <<>>}

DName == <<"D">>
AJson == <<"a", ".", "json">>
AUpper == <<"a", ".", "JSON">>
DotJson == <<".", "json">>
AModJson == <<"a", "-mod", ".", "json">>
NTxt == <<"n", ".", "txt">>

PathInputs ==
    {<<" ", "'", "'">>,
     <<"\"", "D", "/", "\"">>,
     <<"D", "/", "a", ".", "json">>, <<" ", "D", "/", ".", "/", "a", ".", "JSON">>,
     <<"D", "/", "n", ".", "txt">>, <<"n", "o", "p", "e">>}

----------------------------------------------------------------------------
(* Initial file systems *)

DictA == Dict(<< <<"a", 1>> >>)
DictId == Dict(<< <<"id", 99>>, <<"a", 2>> >>)
Elements == {DictA, DictId, Num(7), Str(TRUE)}

\* the text of a well-formed array document
ArrayText(items) ==
    <<LBracket>>
        \o Flatten([i \in 1..Len(items) |->
                        IF i = 1 THEN <<items[i]>> ELSE <<Comma, items[i]>>])
        \o <<RBracket>>

EntryNames == {AJson, AUpper, DotJson, AModJson, NTxt, OutputsName}

ValidText == ArrayText(<<DictA, Num(7)>>)
UnwritableText == ArrayText(<<DictId, Str(TRUE)>>)

\* what each name of the folder may hold
NodesOf(n) ==
    CASE n = AJson -> {FileNode(ValidText), FileNode(<<Garbage>>), DirNode}
      [] n = AUpper -> {FileNode(ValidText), FileNode(UnwritableText), DirNode}
      [] n = OutputsName -> {FileNode(<<>>), DirNode}
      [] OTHER -> {FileNode(ValidText)}

\* the root, the folder D, and the given nodes under the given names in D
FolderWith(names, nodeOf) ==
    [p \in {<<>>, <<DName>>} \cup {<<DName, n>> : n \in names} |->
        IF Len(p) = 2 THEN nodeOf[p[2]] ELSE DirNode]

ShellFileSystems ==
    UNION {{FolderWith(names, nodeOf) :
                nodeOf \in {g \in [names -> UNION {NodesOf(n) : n \in names}] :
                                \A n \in names : g[n] \in NodesOf(n)}} :
           names \in {S \in SUBSET EntryNames : Cardinality(S) <= MaxEntries}}

ApiTexts ==
    {ArrayText(items) : items \in SeqsUpTo(Elements, MaxLen)}
        \cup {<<DictA>>, <<Num(7)>>, <<Garbage>>, <<BadByte>>, <<>>,
              <<LBracket, DictA>>, <<LBracket, DictA, Comma, RBracket>>}

StaleOutput == FileNode(ArrayText(<<Num(7)>>))

\* D holding a.json (a file, a directory or nothing) and Outputs in one of its
\* shapes: missing, a regular file, empty, holding an earlier a-mod.json, or
\* holding a directory of that name
ApiFileSystems ==
    LET inputs == {<<>>} \cup { <<DirNode>> } \cup {<<FileNode(t)>> : t \in ApiTexts}
        base(i) == IF i = <<>> THEN FolderWith({}, <<>>)
                   ELSE FolderWith({AJson}, [n \in {AJson} |-> i[1]])
        out == <<DName, OutputsName>>
        outputs(f) ==
            {f,
             Put(f, out, FileNode(<<>>)),
             Put(f, out, DirNode),
             Put(Put(f, out, DirNode), join(out, AModJson), StaleOutput),
             Put(Put(f, out, DirNode), join(out, AModJson), DirNode)}
    IN  UNION {outputs(base(i)) : i \in inputs}

ApiPaths ==
    {<<DName, AJson>>, <<DName, AUpper>>, <<<<"X">>, AJson>>, <<DName, AJson, AUpper>>, <<DName>>}

----------------------------------------------------------------------------
(* The state machine *)

\* the record of a step: op is the step, input what the operator typed, shell
\* the notice main printed, dispatched the operation main handed the input to;
\* called tells whether the step invoked the Tagger, and then path, fault, ret,
\* msg and raised are the invocation's argument, the failure drawn for it and its
\* outcome; pre is fs before the step
Step(op, input, shell, dispatched, pre) ==
    [op |-> op, input |-> input, shell |-> shell, dispatched |-> dispatched,
     called |-> FALSE, path |-> <<>>, fault |-> NoFault, ret |-> None, msg |-> "",
     raised |-> NoExc, pre |-> pre]

Called(step, path, fault, r) ==
    [step EXCEPT !.called = TRUE, !.path = path, !.fault = fault, !.ret = r.ret,
                 !.msg = r.msg, !.raised = r.raised]

Init ==
    /\ \/ pc = "mode" /\ fs \in ShellFileSystems
       \/ pc = "api" /\ fs \in ApiFileSystems
    /\ mode_choice = <<>>
    /\ folder = <<>>
    /\ json_files = <<>>
    /\ idx = 0
    /\ invoked = <<>>
    /\ results = <<>>
    /\ printed = {}
    /\ rounds = 0
    /\ last = Step("init", <<>>, "", "none", fs)

\* a direct call add_ids_to_json(path)
ApiCall ==
    /\ pc = "api"
    /\ \E path \in ApiPaths, fault \in Faults :
        LET r == add_ids_to_json(fs, path, fault)
        IN  /\ fs' = r.fs
            /\ pc' = IF r.raised = NoExc THEN "api_done" ELSE "api_raised"
            /\ last' = Called(Step("api", <<>>, "", "none", fs), path, fault, r)
    /\ UNCHANGED <<mode_choice, folder, json_files, idx, invoked, results, printed, rounds>>

\* lines 96-104: the mode prompt
ModePrompt ==
    /\ pc = "mode"
    /\ \E typed \in ModeInputs :
        LET choice == ModeChoice(typed)
        IN  /\ mode_choice' = choice
            /\ IF choice = ExitToken
                   THEN /\ pc' = "terminated"
                        /\ last' = Step("mode", typed, "goodbye", "none", fs)
               ELSE IF choice \notin {FileToken, DirToken}
                   THEN /\ pc' = "mode"
                        /\ last' = Step("mode", typed, "invalid_choice", "none", fs)
               ELSE /\ pc' = "path"
                    /\ last' = Step("mode", typed, "", "none", fs)
    /\ UNCHANGED <<fs, folder, json_files, idx, invoked, results, printed, rounds>>

\* line 75: the names of the listing that end in '.json', whatever their case
JsonNames(f, folder_path) == {n \in Entries(f, folder_path) : EndsWithJson(n)}

\* line 84: the loop hands a listed name to the Tagger only if it is a regular file
ShouldTagAnyEntry(f, filepath) == TRUE

ShouldTag(f, filepath) == IsFile(f, filepath)

\* line 118: file mode takes an existing regular file whose path ends in '.json'
ValidFileInputAnyPath(f, normalized_path) == normalized_path # <<>>

ValidFileInput(f, normalized_path) ==
    IsFile(f, normalized_path) /\ EndsWithJson(basename(normalized_path))

\* lines 106-128: the path prompt and the dispatch. In directory mode the step
\* runs process_folder up to its for loop (lines 74-79); os.listdir lists in any
\* order, and raises when the directory cannot be read.
PathPrompt ==
    /\ pc = "path"
    /\ \E typed \in PathInputs :
        LET user_input_path == UserInputPath(typed)
            normalized_path == NormalizedPath(user_input_path)
        IN  IF user_input_path = <<>>
                THEN /\ pc' = "mode"
                     /\ last' = Step("path", typed, "empty_input", "none", fs)
                     /\ UNCHANGED <<fs, folder, json_files, idx, invoked, results, printed>>
            ELSE IF mode_choice = FileToken
                THEN IF ValidFileInput(fs, normalized_path)
                        THEN \E fault \in ShellFaults :
                                LET r == add_ids_to_json(fs, normalized_path, fault)
                                IN  /\ fs' = r.fs
                                    /\ pc' = IF r.raised = NoExc THEN "another" ELSE "crashed"
                                    /\ last' = Called(Step("path", typed, "", "tagger", fs),
                                                      normalized_path, fault, r)
                                    /\ UNCHANGED <<folder, json_files, idx, invoked, results,
                                                   printed>>
                        ELSE /\ pc' = "another"
                             /\ last' = Step("path", typed, "invalid_path", "none", fs)
                             /\ UNCHANGED <<fs, folder, json_files, idx, invoked, results,
                                            printed>>
            ELSE IF IsDir(fs, normalized_path)
                THEN /\ folder' = normalized_path
                     /\ invoked' = <<>>
                     /\ results' = <<>>
                     /\ last' = Step("path", typed, "", "batch", fs)
                     /\ fs' = fs
                     /\ \/ /\ pc' = "crashed"
                           /\ json_files' = <<>>
                           /\ idx' = 0
                           /\ printed' = {}
                        \/ \E listing \in Orderings(JsonNames(fs, normalized_path)) :
                              /\ json_files' = listing
                              /\ IF listing = <<>>
                                    THEN /\ printed' = {"no_json_files"}
                                         /\ idx' = 0
                                         /\ pc' = "another"
                                    ELSE /\ printed' = {}
                                         /\ idx' = 1
                                         /\ pc' = "batch"
            ELSE /\ pc' = "another"
                 /\ last' = Step("path", typed, "invalid_path", "none", fs)
                 /\ UNCHANGED <<fs, folder, json_files, idx, invoked, results, printed>>
    /\ UNCHANGED <<mode_choice, rounds>>

\* lines 81-87: one iteration of the for loop, and the closing notice after the
\* last one
BatchStep ==
    /\ pc = "batch"
    /\ idx \in 1..Len(json_files)
    /\ LET filename == json_files[idx]
           filepath == join(folder, filename)
           atEnd == idx = Len(json_files)
       IN  IF ShouldTag(fs, filepath)
               THEN \E fault \in ShellFaults :
                       LET r == add_ids_to_json(fs, filepath, fault)
                       IN  /\ fs' = r.fs
                           /\ invoked' = Append(invoked, filename)
                           /\ results' = Append(results, [msg |-> r.msg, fault |-> fault])
                           /\ last' = Called(Step("batch", <<>>, "", "batch", fs), filepath,
                                             fault, r)
                           /\ idx' = idx + 1
                           /\ pc' = IF r.raised # NoExc THEN "crashed"
                                    ELSE IF atEnd THEN "another" ELSE "batch"
                           /\ printed' = IF r.raised = NoExc /\ atEnd
                                             THEN printed \cup {"complete"} ELSE printed
               ELSE /\ last' = Step("batch", <<>>, "", "batch", fs)
                    /\ idx' = idx + 1
                    /\ pc' = IF atEnd THEN "another" ELSE "batch"
                    /\ printed' = IF atEnd THEN printed \cup {"complete"} ELSE printed
                    /\ UNCHANGED <<fs, invoked, results>>
    /\ UNCHANGED <<mode_choice, folder, json_files, rounds>>

\* lines 131-134: the continuation prompt. The histories of the operation that
\* ended are cleared; mode_choice is dead once the loop starts over (line 97
\* assigns it before any read).
AnotherPrompt ==
    /\ pc = "another"
    /\ \E typed \in AnotherInputs :
        LET another == Strip(Lower(typed), Whitespace)
        IN  IF another # YesToken
                THEN /\ pc' = "terminated"
                     /\ rounds' = rounds
                     /\ last' = Step("another", typed, "goodbye", "none", fs)
                ELSE /\ rounds < MaxRounds
                     /\ pc' = "mode"
                     /\ rounds' = rounds + 1
                     /\ last' = Step("another", typed, "", "none", fs)
    /\ mode_choice' = <<>>
    /\ folder' = <<>>
    /\ json_files' = <<>>
    /\ idx' = 0
    /\ invoked' = <<>>
    /\ results' = <<>>
    /\ printed' = {}
    /\ fs' = fs

Next == ApiCall \/ ModePrompt \/ PathPrompt \/ BatchStep \/ AnotherPrompt

Spec == Init /\ [][Next]_vars

----------------------------------------------------------------------------
(* Vocabulary of the properties *)

\* the state right after a Tagger invocation: its input path, its derived
\* output path, and the file system it started from
In == last.path
Out == OutputPath(last.path)
Before == last.pre

TaggerFailed == last.called /\ last.raised = NoExc /\ last.ret.none
TaggerSucceeded == last.called /\ last.raised = NoExc /\ ~last.ret.none

\* the node at p is the same before and after the step (or missing both times)
Untouched(p) ==
    /\ p \in DOMAIN fs <=> p \in DOMAIN Before
    /\ p \in DOMAIN fs => fs[p] = Before[p]

\* the fields of a mapping, as a set of <<key, value>> pairs
Fields(d) == Range(d.items)

\* outItem is inItem as the Tagger must leave it at 0-based position i
TaggedAt(inItem, outItem, i) ==
    IF inItem.kind = "dict"
        THEN /\ outItem.kind = "dict"
             /\ Fields(outItem) = {kv \in Fields(inItem) : kv[1] # "id"} \cup {<<"id", i + 1>>}
             /\ Cardinality(Fields(outItem)) = Len(outItem.items)
        ELSE outItem = inItem

\* the text at outPath is an array that tags the array in inText
HoldsTagged(f, outPath, inText) ==
    /\ IsFile(f, outPath)
    /\ LET inDoc == JsonLoad(inText)
           outDoc == JsonLoad(f[outPath].text)
       IN  /\ inDoc.exc = NoExc /\ inDoc.data.kind = "list"
           /\ outDoc.exc = NoExc /\ outDoc.data.kind = "list"
           /\ Len(outDoc.data.items) = Len(inDoc.data.items)
           /\ \A i \in 0..(Len(inDoc.data.items) - 1) :
                 TaggedAt(inDoc.data.items[i + 1], outDoc.data.items[i + 1], i)

\* the text is a document whose root is an array
IsArrayText(text) == JsonLoad(text).exc = NoExc /\ JsonLoad(text).data.kind = "list"

\* process_folder has returned to main
BatchReturned == pc = "another" /\ last.dispatched = "batch"

\* the entries of the folder that are regular files named *.json
MatchingFiles == {n \in Entries(fs, folder) : EndsWithJson(n) /\ IsFile(fs, join(folder, n))}

Occurrences(s, x) == Cardinality({i \in 1..Len(s) : s[i] = x})

ProcessEnded == pc \in {"terminated", "crashed"}

\* the operator asked for the end at the step just taken
OperatorAskedToStop(step) ==
    \/ step.op = "mode" /\ ModeChoice(step.input) = ExitToken
    \/ step.op = "another" /\ Strip(Lower(step.input), Whitespace) # YesToken

----------------------------------------------------------------------------
(* C1 *)

\* C1: a successful Tagger run on a file holding an array of length N leaves at
\* the returned path an array of length N whose element at position i is the
\* input's element i with "id" set to i + 1 if it is a mapping (whatever "id" it
\* had), and the input's element i itself if it is not.
C1_TaggedByPosition ==
    TaggerSucceeded =>
        /\ IsFile(Before, In)
        /\ HoldsTagged(fs, last.ret.path, Before[In].text)

\* a success on [7, {"id": 99, "a": 2}]: a non-mapping first, an id to overwrite
C1_Witness ==
    /\ TaggerSucceeded
    /\ Before[In].text = ArrayText(<<Num(7), DictId>>)
    /\ JsonLoad(fs[last.ret.path].text).data.items[2].items = << <<"id", 2>>, <<"a", 2>> >>

----------------------------------------------------------------------------
(* C2 *)

\* C2: when the input file does not hold valid JSON, or holds a document whose
\* root is not an array, the Tagger returns None and the node at the derived
\* output path is what it was before the call.
C2_RejectedInputWritesNothing ==
    (last.called /\ IsFile(Before, In) /\ ~IsArrayText(Before[In].text)) =>
        /\ TaggerFailed
        /\ Untouched(Out)

\* {"a": 1} rejected while an earlier output is in place
C2_Witness ==
    /\ TaggerFailed
    /\ IsFile(Before, In)
    /\ Before[In].text = <<DictA>>
    /\ last.msg = "not_a_list"
    /\ IsFile(fs, Out)

----------------------------------------------------------------------------
(* C3 *)

\* C3: after a Tagger invocation that fails, the derived output path holds no
\* file that this invocation created or changed.
C3_NoPartialOutput ==
    TaggerFailed => ~(IsFile(fs, Out) /\ ~Untouched(Out))

----------------------------------------------------------------------------
(* C4 *)

\* C4: while process_folder runs and when it has returned, the Tagger has been
\* invoked once on each listed name handled so far that is a regular file, in
\* listing order, and on nothing else, whatever the earlier invocations printed;
\* at the return it has been invoked exactly once on every entry of the folder
\* that is a regular file named *.json and on no other entry, no failure has
\* ended the run, and every file that holds a writable array and met no I/O
\* failure has its tagged output in place.
C4_EveryMatchingFileOnce ==
    /\ (pc = "batch" \/ BatchReturned) =>
          invoked = SelectSeq(Prefix(json_files, idx - 1),
                              LAMBDA n : IsFile(fs, join(folder, n)))
    /\ last.op = "batch" => pc # "crashed"
    /\ BatchReturned =>
          /\ \A n \in Entries(fs, folder) :
                Occurrences(invoked, n) = IF n \in MatchingFiles THEN 1 ELSE 0
          /\ Range(invoked) \subseteq Entries(fs, folder)
          /\ \A i \in 1..Len(invoked) :
                LET text == fs[join(folder, invoked[i])].text
                IN  (/\ IsArrayText(text)
                     /\ \A j \in 1..Len(text) : ~Unencodable(<<text[j]>>)
                     /\ results[i].fault = NoFault
                     /\ ~IsFile(fs, join(folder, OutputsName)))
                        => HoldsTagged(fs, OutputPath(join(folder, invoked[i])), text)

\* the malformed file listed first, the valid one after it, and its output there
C4_Witness ==
    /\ BatchReturned
    /\ Len(invoked) = 2
    /\ results[1].msg = "decode_error"
    /\ results[2].msg = "success"
    /\ IsFile(fs, OutputPath(join(folder, invoked[2])))

----------------------------------------------------------------------------
(* C5 *)

\* C5: whatever the path and whichever of makedirs, open, read, parse or write
\* fails, add_ids_to_json lets no exception through: it prints a message and
\* returns None or the derived output path.
C5_NoExceptionEscapes ==
    /\ pc # "api_raised"
    /\ last.called =>
          /\ last.raised = NoExc
          /\ last.msg # ""
          /\ last.ret.none \/ last.ret.path = Out

\* a failing write reported by the catch-all clause
C5_Witness ==
    /\ TaggerFailed
    /\ last.fault.at = "write"
    /\ last.msg = "unexpected"

----------------------------------------------------------------------------
(* C6 *)

\* C6: the process ends only right after the operator typed 'exit' at the mode
\* prompt or something other than 'y' at the continuation prompt.
C6_EndsOnlyOnRequest == ProcessEnded => OperatorAskedToStop(last)

----------------------------------------------------------------------------
(* C7 *)

\* C7: when process_folder returns from a folder with no regular file named
\* *.json, it has printed the empty-result notice and the Tagger was not
\* invoked, so nothing was written.
C7_EmptyNoticeWhenNoMatch ==
    (BatchReturned /\ MatchingFiles = {}) =>
        /\ "no_json_files" \in printed
        /\ invoked = <<>>

----------------------------------------------------------------------------
(* C8 *)

----------------------------------------------------------------------------
(* C9 *)

\* the step read an input the shell must reject: an unknown mode token, an empty
\* path, a path that is no regular file in file mode or no directory in
\* directory mode
RejectedInput(step, mode) ==
    \/ step.op = "mode" /\ ModeChoice(step.input) \notin {FileToken, DirToken, ExitToken}
    \/ /\ step.op = "path"
       /\ \/ UserInputPath(step.input) = <<>>
          \/ mode = FileToken /\ ~IsFile(step.pre, NormalizedPath(UserInputPath(step.input)))
          \/ mode = DirToken /\ ~IsDir(step.pre, NormalizedPath(UserInputPath(step.input)))

----------------------------------------------------------------------------
(* C10 *)

\* out is D/Outputs/name-mod.ext for the path D/name.ext
IsDerivedFrom(out, path) ==
    /\ path # <<>>
    /\ Len(out) = Len(path) + 1
    /\ Prefix(out, Len(path) - 1) = Prefix(path, Len(path) - 1)
    /\ out[Len(path)] = <<"Outputs">>
    /\ LET name == path[Len(path)]
       IN  \E k \in 0..Len(name) :
              /\ out[Len(out)] = Prefix(name, k) \o <<"-mod">> \o Suffix(name, k + 1)
              /\ \/ k = Len(name)
                 \/ name[k + 1] = "." /\ \A j \in (k + 2)..Len(name) : name[j] # "."

\* C10: a Tagger invocation removes nothing, changes no node that was there
\* except the file at D/Outputs/name-mod.ext, and creates no file but that one;
\* that path is not the input path and the input file is left as it was. In a
\* Batch Runner run no two invocations share an output path and no output path
\* is a listed input.
C10_WritesOnlyTheDerivedPath ==
    /\ last.called =>
          /\ DOMAIN Before \subseteq DOMAIN fs
          /\ \A p \in DOMAIN fs :
                \/ p \in DOMAIN Before /\ fs[p] = Before[p]
                \/ p \notin DOMAIN Before /\ fs[p] = DirNode
                \/ IsFile(fs, p) /\ IsDerivedFrom(p, In) /\ p # In
          /\ In \in DOMAIN Before => fs[In] = Before[In]
    /\ (pc = "batch" \/ BatchReturned) =>
          /\ \A i, j \in 1..Len(invoked) :
                i # j => OutputPath(join(folder, invoked[i])) # OutputPath(join(folder, invoked[j]))
          /\ \A i \in 1..Len(invoked), j \in 1..Len(json_files) :
                OutputPath(join(folder, invoked[i])) # join(folder, json_files[j])

\* a.json and a.JSON both tagged in one run, each into its own file
C10_Witness ==
    /\ BatchReturned
    /\ Len(invoked) = 2
    /\ results[1].msg = "success"
    /\ results[2].msg = "success"
    /\ last.called
    /\ Out \notin DOMAIN Before

====
